---- MODULE Spec2Model ----
(***************************************************************************)
(* The ReactQuill component of src/src/component.tsx as a state machine:   *)
(* the React lifecycle handlers (constructor, shouldComponentUpdate,       *)
(* componentDidMount, componentDidUpdate, componentWillUnmount), the two   *)
(* widget-event handlers (onEditorChangeText, onEditorChangeSelection) and *)
(* the instance handle they share.                                         *)
(*                                                                         *)
(* React (16, legacy mode) is modelled by its lifecycle contract:          *)
(*   - a parent re-render calls shouldComponentUpdate(nextProps, state),   *)
(*     assigns this.props whatever it answers, and calls                   *)
(*     componentDidUpdate(prevProps, prevState) only when it answered true;*)
(*   - setState called inside componentDidUpdate does not change           *)
(*     this.state during that call: React runs a second update pass, with  *)
(*     the same props, right after it (action FlushState);                 *)
(*   - setState called from a widget event handler is applied before the   *)
(*     handler returns (shouldComponentUpdate answers false there, because *)
(*     neither props nor generation changed).                              *)
(* The widget (Quill) and the helper mixin are not in the source file; the *)
(* part of them the component calls is modelled from the specification's   *)
(* description of the consumed interface.                                  *)
(***************************************************************************)
EXTENDS Integers, Sequences, FiniteSets, TLC

\* ------------------------------------------------------------------ bounds
\* Documents the widget can hold are 0..MaxDoc; 0 is the empty document.
MaxDoc ==
  1
\* Selections are 0..MaxRange; 0 is "no selection" (null), the others ranges.
MaxRange ==
  2
\* The generation counter is capped: a regeneration starts only below it.
MaxInstances ==
  2
MaxGeneration ==
  2

Docs == 0..MaxDoc
Ranges == 0..MaxRange
\* selection: null
NoRange ==
  0
\* editor?: Quill, when absent
NoEditor ==
  0

\* ------------------------------------------------------------------ values
\* A Value is an HTML string or a structured document (an object with ops).
\*   kind  : "html" or "delta"
\*   ref   : object identity; 0 for strings and for objects that are not the
\*           most recent change payload, 1 for the most recent change payload
\*   doc   : the document the markup / the ops describe
\*   canon : whether the markup / ops are spelled the way the widget itself
\*           serialises that document ("<p>a</p>" rather than "a")
Html(d, c) == [kind |-> "html", ref |-> 0, doc |-> d, canon |-> c]
Delta(r, d, c) == [kind |-> "delta", ref |-> r, doc |-> d, canon |-> c]
\* The empty string '' (the fallback of value ?? '').
EmptyString == Html(0, FALSE)
\* "No object" for the optional fields holding a Delta.
Undefined == [kind |-> "undefined", ref |-> 0, doc |-> 0, canon |-> FALSE]

\* lodash isEqual on two Values: deep equality, blind to object identity.
isEqual(a, b) ==
  /\ a.kind = b.kind
  /\ a.doc = b.doc
  /\ a.canon = b.canon

\* value.ops of a structured value.
ops(v) == <<v.doc, v.canon>>

\* True if the value is a Delta instance or a Delta look-alike.
isDelta(value) == value.kind = "delta"

\* Special comparison function that knows how to compare Deltas.
\* Mutant of isEqualValue: the contents are compared whatever the kinds.
isEqualValueWhateverKind(value, nextValue) ==
  ops(value) = ops(nextValue)

isEqualValue(value, nextValue) ==
  IF isDelta(value) /\ isDelta(nextValue)
    THEN ops(value) = ops(nextValue)
    ELSE isEqual(value, nextValue)

\* ------------------------------------------------------------------- props
dirtyProps == {"modules", "formats", "bounds", "theme", "children"}

cleanProps ==
  {"id", "className", "style", "readOnly", "placeholder", "tabIndex",
   "onChange", "onChangeSelection", "onFocus", "onBlur",
   "onKeyPress", "onKeyDown", "onKeyUp"}

\* Keys outside both lists that the component accepts.
inertProps == {"defaultValue", "preserveWhitespace", "scrollingContainer"}

AllKeys == dirtyProps \cup cleanProps \cup inertProps

\* A configuration gives every key one of two values (for readOnly 0 is false
\* and 1 is true, for defaultValue 0 is "not supplied"; the callbacks are two
\* different functions, always supplied).  value is kept apart because it
\* may be missing: hasValue is 'value' in props.
BaseConfig == [k \in AllKeys |-> 0]
With(k) == [BaseConfig EXCEPT ![k] = 1]

\* The keys whose value the parent varies: one of the dirty list, two of the
\* clean list (readOnly, which componentDidUpdate also reads, and a callback)
\* and one inert key.  The handlers reach the keys only through
\* some(list, ...), which treats the keys of a list alike.
VariedKeys == {"theme", "readOnly", "onChange", "defaultValue"}

\* The configurations the parent renders with: the base one and, for every
\* varied key, the one that differs from it in that key.
ParentConfigs == {BaseConfig} \cup {With(k) : k \in VariedKeys}

\* The values the parent supplies that are not change payloads.
ParentValues ==
  {EmptyString} \cup {Html(d, TRUE) : d \in 1..MaxDoc}
    \cup {Delta(0, d, TRUE) : d \in 1..MaxDoc}

\* props.defaultValue
defaultValueOf(cfg) ==
  IF cfg["defaultValue"] = 0 THEN EmptyString ELSE Html(MaxDoc, TRUE)

\* ------------------------------------------------------------------- state
VARIABLES
  phase,                \* "constructed", "mounted" or "unmounted"
  pc,                   \* "idle", or "flush" while a queued setState is pending
  props,                \* this.props
  state,                \* this.state: generation, value, selection
  editor,               \* this.editor: an index into instances, or NoEditor
  instances,            \* every widget instance created so far
  lastDeltaChangeSet,   \* this.lastDeltaChangeSet, or Undefined
  regenerationSnapshot, \* this.regenerationSnapshot
  pendingGeneration,    \* the generation queued by setState, or -1
  error,                \* the message of the error thrown, or ""
  ilog,                 \* calls made on widget instances by the last operation
  calls,                \* callbacks invoked by the last operation
  last,                 \* the last operation: its input and the state before it
  lastFocusCallback     \* the last of onFocus / onBlur invoked, or "none"

vars ==
  <<phase, pc, props, state, editor, instances, lastDeltaChangeSet,
    regenerationSnapshot, pendingGeneration, error, ilog, calls, last,
    lastFocusCallback>>

NoSnapshot == [present |-> FALSE, delta |-> 0, selection |-> NoRange]

\* The part of the component a lifecycle handler reads and writes, as one
\* record, so that a handler is a function from records to records.  A handler
\* that has thrown leaves its message in .error and does nothing more.
Self ==
  [editor |-> editor, instances |-> instances,
   snapshot |-> regenerationSnapshot, pending |-> pendingGeneration,
   ilog |-> <<>>, error |-> ""]

Logged(c, op, inst, arg) ==
  [c EXCEPT !.ilog = Append(@, [op |-> op, inst |-> inst, arg |-> arg])]

Count(log, opNames) ==
  Cardinality({i \in 1..Len(log) : log[i].op \in opNames})

\* ------------------------------------------------- the widget and the mixin
\* clipboard.convert(html) and new Delta(ops): the document a value describes.
docOf(value) == value.doc
\* instance.getHTML(): the widget's own serialisation of its document.
getHTML(d) == Html(d, TRUE)
\* instance.getContents(): a new object holding the document's own ops.
getContents(d) == Delta(0, d, TRUE)

\* create(container, config) -> instance, subscribed to its notifications.
createEditor(c, config) ==
  Logged([c EXCEPT !.instances =
            Append(@, [contents |-> 0, selection |-> NoRange, hooked |-> TRUE])],
         "create", Len(c.instances) + 1, 0)

\* Unsubscribes the component from the instance's notifications.
unhookEditor(c, e) ==
  Logged([c EXCEPT !.instances[e].hooked = FALSE], "unhook", e, 0)

\* Replaces the instance's whole document by the value (structured) or by the
\* markup (string).
setEditorContents(c, e, value) ==
  Logged([c EXCEPT !.instances[e].contents = docOf(value)],
         "setEditorContents", e, docOf(value))

\* instance.enable(!readOnly)
setEditorReadOnly(c, e, readOnly) ==
  Logged(c, "enable", e, 1 - readOnly)

\* instance.setContents(delta), called on the instance directly.
setContents(c, e, d) ==
  Logged([c EXCEPT !.instances[e].contents = d], "setContents", e, d)

\* instance.setSelection(range)
setSelection(c, e, r) ==
  Logged([c EXCEPT !.instances[e].selection = r], "setSelection", e, r)

\* instance.focus()
focusEditor(c, e) ==
  Logged(c, "focus", e, 0)

\* Sets the instance's selection to the range, or removes it (null).
setEditorSelection(c, e, range) ==
  setSelection(c, e, range)

\* ------------------------------------------------------- lifecycle helpers
isControlled(p) == p.hasValue

\* Mutant of validateProps: the comparison with the token is missing.
validatePropsWithoutToken(p, token) ==
  FALSE

\* validateProps: of its checks the one that depends on the component's state,
\* props.value === this.lastDeltaChangeSet (reference identity).  TRUE when
\* it throws.
validateProps(p, token) ==
  /\ token.kind # "undefined"
  /\ p.hasValue
  /\ p.value.kind = token.kind
  /\ p.value.ref = token.ref
  /\ p.value.ref # 0

UsageError == "You are passing the delta object from the onChange event back as value."

\* Whether some key of the list differs (deep equality) between two props.
someDiffer(keys, p, q) ==
  \E k \in keys : p.cfg[k] # q.cfg[k]

\* shouldComponentUpdate, after validateProps has passed.
shouldComponentUpdate(p, s, nextProps, nextState) ==
  IF s.generation # nextState.generation
    THEN TRUE
    ELSE someDiffer(cleanProps \cup dirtyProps, nextProps, p)

\* Mutant of shouldComponentRegenerate: it looks at both lists of props.
shouldComponentRegenerateAnyProp(p, nextProps) ==
  someDiffer(cleanProps \cup dirtyProps, nextProps, p)

shouldComponentRegenerate(p, nextProps) ==
  someDiffer(dirtyProps, nextProps, p)

\* Mutant of instantiateEditor: the test of this.editor is missing.
instantiateEditorUnguarded(c, p) ==
  LET made == createEditor(c, p.cfg)
  IN  [made EXCEPT !.editor = Len(made.instances)]

instantiateEditor(c, p) ==
  IF c.editor # NoEditor
    THEN [c EXCEPT !.error = "Editor is already instantiated"]
    ELSE LET made == createEditor(c, p.cfg)
         IN  [made EXCEPT !.editor = Len(made.instances)]

\* Mutant of destroyEditor: the handle is kept after the unsubscription.
destroyEditorKeepsHandle(c) ==
  IF c.editor = NoEditor
    THEN [c EXCEPT !.error = "Destroying editor before instantiation"]
    ELSE unhookEditor(c, c.editor)

\* Mutant of destroyEditor: the handle is dropped without unsubscribing.
destroyEditorKeepsSubscription(c) ==
  IF c.editor = NoEditor
    THEN [c EXCEPT !.error = "Destroying editor before instantiation"]
    ELSE [c EXCEPT !.editor = NoEditor]

destroyEditor(c) ==
  IF c.editor = NoEditor
    THEN [c EXCEPT !.error = "Destroying editor before instantiation"]
    ELSE [unhookEditor(c, c.editor) EXCEPT !.editor = NoEditor]

componentDidMount(c, p, s) ==
  LET made == instantiateEditor(c, p)
  IN  IF made.error # ""
        THEN made
        ELSE setEditorContents(made, made.editor, s.value)

componentWillUnmount(c) ==
  destroyEditor(c)

\* Mutant of snapshotAndDestroy: the replacement instance is created on the
\* spot and the old one is left subscribed.
snapshotAndReplace(c, e, s) ==
  LET inst == c.instances[e]
      made == createEditor(c, 0)
  IN  [made EXCEPT !.snapshot = [present |-> TRUE, delta |-> inst.contents,
                                 selection |-> inst.selection],
                   !.pending = s.generation + 1,
                   !.editor = Len(made.instances)]

\* componentDidUpdate, first block: the update changed a dirty prop.
\* (setState only queues the new generation.)
snapshotAndDestroy(c, e, s) ==
  LET inst == c.instances[e]
      read == Logged(Logged(c, "getContents", e, inst.contents),
                     "getSelection", e, inst.selection)
  IN  destroyEditor(
        [read EXCEPT !.snapshot = [present |-> TRUE, delta |-> inst.contents,
                                   selection |-> inst.selection],
                     !.pending = s.generation + 1])

\* componentDidUpdate, second block: the generation changed. `e` is the local
\* constant `editor` taken at the top of componentDidUpdate.
instantiateAndRestore(c, e, p) ==
  IF ~c.snapshot.present
    THEN [c EXCEPT !.error = "TypeError: regenerationSnapshot is undefined"]
    ELSE LET snap == c.snapshot
             made == instantiateEditor([c EXCEPT !.snapshot = NoSnapshot], p)
         IN  IF made.error # ""
               THEN made
               ELSE LET filled == setContents(made, e, snap.delta)
                        placed == IF snap.selection # NoRange
                                    THEN setSelection(filled, e, snap.selection)
                                    ELSE filled
                    IN  focusEditor(placed, e)

\* Mutant of componentDidUpdate: the test 'value' in this.props is missing.
componentDidUpdateAlwaysPushes(c, prevProps, prevState, p, s) ==
  IF c.editor = NoEditor
    THEN c
    ELSE
      LET e == c.editor
          c1 == IF someDiffer(dirtyProps, prevProps, p)
                  THEN [c EXCEPT
                          !.snapshot = [present |-> TRUE,
                                        delta |-> c.instances[e].contents,
                                        selection |-> c.instances[e].selection],
                          !.pending = s.generation + 1,
                          !.instances[e].hooked = FALSE,
                          !.editor = NoEditor,
                          !.ilog = @ \o <<[op |-> "unhook", inst |-> e, arg |-> 0]>>]
                  ELSE c
          c3 == IF ~isEqualValue(p.value, prevState.value)
                  THEN setEditorContents(c1, e, p.value)
                  ELSE c1
      IN  IF p.cfg["readOnly"] # prevProps.cfg["readOnly"]
            THEN setEditorReadOnly(c3, e, p.cfg["readOnly"])
            ELSE c3

\* componentDidUpdate(prevProps, prevState) with this.props = p, this.state = s.
componentDidUpdate(c, prevProps, prevState, p, s) ==
  IF c.editor = NoEditor
    THEN c
    ELSE
      LET e == c.editor
          c1 == IF shouldComponentRegenerate(p, prevProps)
                  THEN snapshotAndDestroy(c, e, s)
                  ELSE c
          c2 == IF c1.error = "" /\ s.generation # prevState.generation
                  THEN instantiateAndRestore(c1, e, p)
                  ELSE c1
          c3 == IF /\ c2.error = ""
                   /\ p.hasValue
                   /\ ~isEqualValue(p.value, prevState.value)
                  THEN setEditorContents(c2, e, p.value)
                  ELSE c2
          c4 == IF c3.error = "" /\ p.cfg["readOnly"] # prevProps.cfg["readOnly"]
                  THEN setEditorReadOnly(c3, e, p.cfg["readOnly"])
                  ELSE c3
      IN  c4

\* ---------------------------------------------------------- event handlers
Call(name, arg) == [name |-> name, arg |-> arg]

\* Mutant of onEditorChangeText: the comparison with the tracked value is
\* missing.
onEditorChangeTextUnfiltered(s, token, delta, contents) ==
  [state |-> [s EXCEPT !.value = IF s.value.kind = "delta"
                                   THEN Delta(0, contents, TRUE)
                                   ELSE Html(contents, TRUE)],
   token |-> delta,
   calls |-> <<[name |-> "onChange", arg |-> contents]>>]

\* onEditorChangeText(value, delta, source, editor): s is this.state, token is
\* this.lastDeltaChangeSet, delta the raw change payload, contents the document
\* of the instance the read-only editor view looks at.
onEditorChangeText(s, token, delta, contents) ==
  LET currentContents == s.value
      nextContents == IF isDelta(currentContents)
                        THEN getContents(contents)
                        ELSE getHTML(contents)
  IN  IF ~isEqualValue(nextContents, currentContents)
        THEN [state |-> [s EXCEPT !.value = nextContents],
              token |-> delta,
              calls |-> <<Call("onChange", contents)>>]
        ELSE [state |-> s, token |-> token, calls |-> <<>>]

\* Mutant of onEditorChangeSelection: onBlur is given the new selection.
onEditorChangeSelectionBlurNew(s, nextSelection) ==
  IF nextSelection = s.selection
    THEN [state |-> s, calls |-> <<>>]
    ELSE [state |-> [s EXCEPT !.selection = nextSelection],
          calls |-> <<[name |-> "onChangeSelection", arg |-> nextSelection]>> \o
                    (IF s.selection = NoRange
                       THEN <<[name |-> "onFocus", arg |-> nextSelection]>>
                       ELSE IF nextSelection = NoRange
                         THEN <<[name |-> "onBlur", arg |-> nextSelection]>>
                         ELSE <<>>)]

\* Mutant of onEditorChangeSelection: the comparison with the tracked
\* selection is missing.
onEditorChangeSelectionUnfiltered(s, nextSelection) ==
  [state |-> [s EXCEPT !.selection = nextSelection],
   calls |-> <<[name |-> "onChangeSelection", arg |-> nextSelection]>> \o
             (IF s.selection = NoRange /\ nextSelection # NoRange
                THEN <<[name |-> "onFocus", arg |-> nextSelection]>>
                ELSE IF s.selection # NoRange /\ nextSelection = NoRange
                  THEN <<[name |-> "onBlur", arg |-> s.selection]>>
                  ELSE <<>>)]

\* Mutant of onEditorChangeSelection: focus is taken to be gained whenever
\* the new selection is present.
onEditorChangeSelectionFocusOnAnyRange(s, nextSelection) ==
  LET currentSelection == s.selection
      hasGainedFocus == nextSelection # NoRange
      hasLostFocus == currentSelection # NoRange /\ nextSelection = NoRange
  IN  IF nextSelection = currentSelection
        THEN [state |-> s, calls |-> <<>>]
        ELSE [state |-> [s EXCEPT !.selection = nextSelection],
              calls |-> <<Call("onChangeSelection", nextSelection)>> \o
                        (IF hasGainedFocus
                           THEN <<Call("onFocus", nextSelection)>>
                           ELSE IF hasLostFocus
                             THEN <<Call("onBlur", currentSelection)>>
                             ELSE <<>>)]

\* onEditorChangeSelection(nextSelection, source, editor)
onEditorChangeSelection(s, nextSelection) ==
  LET currentSelection == s.selection
      hasGainedFocus == currentSelection = NoRange /\ nextSelection # NoRange
      hasLostFocus == currentSelection # NoRange /\ nextSelection = NoRange
  IN  IF nextSelection = currentSelection
        THEN [state |-> s, calls |-> <<>>]
        ELSE [state |-> [s EXCEPT !.selection = nextSelection],
              calls |-> <<Call("onChangeSelection", nextSelection)>> \o
                        (IF hasGainedFocus
                           THEN <<Call("onFocus", nextSelection)>>
                           ELSE IF hasLostFocus
                             THEN <<Call("onBlur", currentSelection)>>
                             ELSE <<>>)]

\* --------------------------------------------------------------- bookkeeping
\* What the last operation was given: for an update, how nextProps differed
\* from the props and the state it met.
Note(op, arg, flags) ==
  [op |-> op, arg |-> arg,
   dirty |-> flags.dirty, clean |-> flags.clean, other |-> flags.other,
   valueChanged |-> flags.valueChanged,
   valueDiffers |-> flags.valueDiffers, echo |-> flags.echo,
   hasValue |-> flags.hasValue, value |-> flags.value,
   hadEditor |-> editor # NoEditor, prevGeneration |-> state.generation]

NoFlags ==
  [dirty |-> FALSE, clean |-> FALSE, other |-> FALSE, valueChanged |-> FALSE,
   valueDiffers |-> FALSE, echo |-> FALSE, hasValue |-> FALSE,
   value |-> EmptyString]

Pushes(log) == Count(log, {"setEditorContents"})

\* Whether the callback called name is among the callbacks cs.
Invoked(cs, name) == \E k \in 1..Len(cs) : cs[k].name = name

\* The last of onFocus / onBlur invoked, after the callbacks cs.
FocusAfter(before, cs) ==
  IF Invoked(cs, "onFocus") THEN "onFocus"
  ELSE IF Invoked(cs, "onBlur") THEN "onBlur"
  ELSE before

\* Writes a handler's result back to the component.
Apply(c) ==
  /\ editor' = c.editor
  /\ instances' = c.instances
  /\ regenerationSnapshot' = c.snapshot
  /\ pendingGeneration' = c.pending
  /\ ilog' = c.ilog
  /\ error' = c.error

\* ------------------------------------------------------------------ actions
\* The props a parent can render the component with.
PropsChoices ==
  {[cfg |-> cfg, hasValue |-> hv, value |-> IF hv THEN v ELSE EmptyString] :
     cfg \in ParentConfigs, hv \in BOOLEAN, v \in ParentValues}

\* constructor(props)
Init ==
  /\ props \in PropsChoices
  /\ state = [generation |-> 0, selection |-> NoRange,
              value |-> IF isControlled(props)
                          THEN props.value
                          ELSE defaultValueOf(props.cfg)]
  /\ phase = "constructed"
  /\ pc = "idle"
  /\ editor = NoEditor
  /\ instances = <<>>
  /\ lastDeltaChangeSet = Undefined
  /\ regenerationSnapshot = NoSnapshot
  /\ pendingGeneration = -1
  /\ error = ""
  /\ ilog = <<>>
  /\ calls = <<>>
  /\ last = [op |-> "constructor", arg |-> 0,
             dirty |-> FALSE, clean |-> FALSE, other |-> FALSE,
             valueChanged |-> FALSE, valueDiffers |-> FALSE, echo |-> FALSE,
             hasValue |-> FALSE, value |-> EmptyString,
             hadEditor |-> FALSE, prevGeneration |-> 0]
  /\ lastFocusCallback = "none"

\* React mounts the component.
Mount ==
  /\ phase = "constructed"
  /\ LET c == componentDidMount(Self, props, state)
     IN  /\ Apply(c)
         /\ phase' = IF c.error = "" THEN "mounted" ELSE "crashed"
  /\ last' = Note("mount", 0, NoFlags)
  /\ calls' = <<>>
  /\ UNCHANGED <<pc, props, state, lastDeltaChangeSet, lastFocusCallback>>

\* The parent renders the component with nextProps.
Update(nextProps) ==
  /\ phase = "mounted"
  /\ pc = "idle"
  /\ (editor # NoEditor /\ shouldComponentRegenerate(props, nextProps))
       => state.generation < MaxGeneration
  /\ LET flags ==
           [dirty |-> someDiffer(dirtyProps, nextProps, props),
            clean |-> someDiffer(cleanProps, nextProps, props),
            other |-> \/ someDiffer(inertProps, nextProps, props)
                      \/ nextProps.hasValue # props.hasValue,
            valueChanged |-> nextProps.value # props.value,
            valueDiffers |-> /\ nextProps.hasValue
                             /\ ~isEqualValue(nextProps.value, state.value),
            echo |-> /\ nextProps.hasValue
                     /\ nextProps.value.ref # 0
                     /\ nextProps.value = lastDeltaChangeSet,
            hasValue |-> nextProps.hasValue,
            value |-> nextProps.value]
     IN  last' = Note("update", 0, flags)
  /\ calls' = <<>>
  /\ UNCHANGED lastFocusCallback
  /\ IF validateProps(nextProps, lastDeltaChangeSet)
       THEN /\ error' = UsageError
            /\ phase' = "crashed"
            /\ ilog' = <<>>
            /\ UNCHANGED <<pc, props, state, editor, instances,
                           lastDeltaChangeSet, regenerationSnapshot,
                           pendingGeneration>>
       ELSE LET c == IF shouldComponentUpdate(props, state, nextProps, state)
                       THEN componentDidUpdate(Self, props, state, nextProps, state)
                       ELSE Self
            IN  /\ Apply(c)
                /\ props' = nextProps
                /\ phase' = IF c.error = "" THEN "mounted" ELSE "crashed"
                /\ pc' = IF c.error = "" /\ c.pending # -1 THEN "flush" ELSE "idle"
                /\ UNCHANGED <<state, lastDeltaChangeSet>>

\* React applies the generation queued by setState and runs the update pass it
\* causes, with the same props.
FlushState ==
  /\ phase = "mounted"
  /\ pc = "flush"
  /\ LET nextState == [state EXCEPT !.generation = pendingGeneration]
     IN  IF validateProps(props, lastDeltaChangeSet)
           THEN /\ error' = UsageError
                /\ phase' = "crashed"
                /\ pc' = "idle"
                /\ UNCHANGED <<state, editor, instances, regenerationSnapshot,
                               pendingGeneration, ilog>>
           ELSE LET c0 == [Self EXCEPT !.pending = -1, !.ilog = ilog]
                    c == IF shouldComponentUpdate(props, state, props, nextState)
                           THEN componentDidUpdate(c0, props, state, props, nextState)
                           ELSE c0
                IN  /\ Apply(c)
                    /\ state' = nextState
                    /\ phase' = IF c.error = "" THEN "mounted" ELSE "crashed"
                    /\ pc' = IF c.error = "" /\ c.pending # -1
                               THEN "flush" ELSE "idle"
  /\ UNCHANGED <<props, lastDeltaChangeSet, calls, last, lastFocusCallback>>

\* The widget instance i, to which the component is subscribed, reports a
\* change of its document (to d, which may be the document it already held:
\* not every notification is a real change).
TextChange(i, d) ==
  /\ phase = "mounted"
  /\ pc = "idle"
  /\ instances[i].hooked
  /\ LET r == onEditorChangeText(state, lastDeltaChangeSet, Delta(1, d, FALSE), d)
     IN  /\ state' = r.state
         /\ lastDeltaChangeSet' = r.token
         /\ calls' = r.calls
  /\ instances' = [instances EXCEPT ![i].contents = d]
  /\ ilog' = <<>>
  /\ error' = ""
  /\ last' = Note("text", d, NoFlags)
  /\ UNCHANGED <<phase, pc, props, editor, regenerationSnapshot,
                 pendingGeneration, lastFocusCallback>>

\* The widget instance i reports that its selection is now r.
SelectionChange(i, r) ==
  /\ phase = "mounted"
  /\ pc = "idle"
  /\ instances[i].hooked
  /\ LET res == onEditorChangeSelection(state, r)
     IN  /\ state' = res.state
         /\ calls' = res.calls
         /\ lastFocusCallback' = FocusAfter(lastFocusCallback, res.calls)
  /\ instances' = [instances EXCEPT ![i].selection = r]
  /\ ilog' = <<>>
  /\ error' = ""
  /\ last' = Note("selection", r, NoFlags)
  /\ UNCHANGED <<phase, pc, props, editor, lastDeltaChangeSet,
                 regenerationSnapshot, pendingGeneration>>

\* React unmounts the component (also after a handler has thrown).
Unmount ==
  /\ phase \in {"mounted", "crashed"}
  /\ pc = "idle"
  /\ Apply([componentWillUnmount(Self) EXCEPT !.pending = -1])
  /\ phase' = "unmounted"
  /\ last' = Note("unmount", 0, NoFlags)
  /\ calls' = <<>>
  /\ UNCHANGED <<pc, props, state, lastDeltaChangeSet, lastFocusCallback>>

Next ==
  \/ Mount
  \/ \E np \in PropsChoices \cup
         {[cfg |-> cfg, hasValue |-> TRUE, value |-> lastDeltaChangeSet] :
            cfg \in IF lastDeltaChangeSet.kind = "delta" THEN ParentConfigs ELSE {}} :
       Update(np)
  \/ FlushState
  \/ \E i \in 1..Len(instances), d \in Docs : TextChange(i, d)
  \/ \E i \in 1..Len(instances), r \in Ranges : SelectionChange(i, r)
  \/ Unmount

Spec == Init /\ [][Next]_vars

\* ------------------------------------------------------- the public methods
\* getEditor()
getEditor(c) ==
  IF c.editor = NoEditor
    THEN [c EXCEPT !.error = "Accessing non-instantiated editor"]
    ELSE c

\* focus()
focus(c) ==
  IF c.editor = NoEditor THEN c ELSE focusEditor(c, c.editor)

\* blur()
blur(c) ==
  IF c.editor = NoEditor THEN c ELSE setEditorSelection(c, c.editor, NoRange)

\* The application calls a public method on the mounted component.  An error
\* the method throws goes to the caller: the component stays mounted.
CallMethod(name, c) ==
  /\ phase = "mounted"
  /\ pc = "idle"
  /\ Apply(c)
  /\ last' = Note(name, 0, NoFlags)
  /\ calls' = <<>>
  /\ UNCHANGED <<phase, pc, props, state, lastDeltaChangeSet,
                 lastFocusCallback>>

CallGetEditor == CallMethod("getEditor", getEditor(Self))

CallFocus == CallMethod("focus", focus(Self))

CallBlur == CallMethod("blur", blur(Self))

CallInstantiateEditor ==
  /\ editor = NoEditor => Len(instances) < MaxInstances
  /\ CallMethod("instantiateEditor", instantiateEditor(Self, props))

CallDestroyEditor == CallMethod("destroyEditor", destroyEditor(Self))

\* The props of the application that calls the methods: it leaves the value
\* to the component and switches the theme.
ApiPropsChoices ==
  {[cfg |-> cfg, hasValue |-> FALSE, value |-> EmptyString] :
     cfg \in {BaseConfig, With("theme")}}

InitApi ==
  /\ Init
  /\ props \in ApiPropsChoices

NextApi ==
  \/ Mount
  \/ \E np \in ApiPropsChoices : Update(np)
  \/ FlushState
  \/ \E i \in 1..Len(instances), d \in Docs : TextChange(i, d)
  \/ \E i \in 1..Len(instances), r \in Ranges : SelectionChange(i, r)
  \/ Unmount
  \/ CallGetEditor
  \/ CallFocus
  \/ CallBlur
  \/ CallInstantiateEditor
  \/ CallDestroyEditor

SpecApi == InitApi /\ [][NextApi]_vars

\* ------------------------------------------------- isEqualValue on its own
\* Every value of the Value type within the bounds: HTML strings, and Deltas
\* that are or are not the object of the last change notification.
EqValues ==
  {Html(d, c) : d \in Docs, c \in BOOLEAN} \cup
  {Delta(r, d, c) : r \in {0, 1}, d \in Docs, c \in BOOLEAN}

\* constructor(props), with any value at all as props.value.
InitEq ==
  /\ props \in {[cfg |-> BaseConfig, hasValue |-> TRUE, value |-> v] :
                  v \in EqValues}
  /\ state = [generation |-> 0, selection |-> NoRange, value |-> props.value]
  /\ phase = "constructed"
  /\ pc = "idle"
  /\ editor = NoEditor
  /\ instances = <<>>
  /\ lastDeltaChangeSet = Undefined
  /\ regenerationSnapshot = NoSnapshot
  /\ pendingGeneration = -1
  /\ error = ""
  /\ ilog = <<>>
  /\ calls = <<>>
  /\ last = [Note("constructor", 0, NoFlags) EXCEPT !.hadEditor = FALSE,
                                                   !.prevGeneration = 0]
  /\ lastFocusCallback = "none"

\* isEqualValue(value, this.state.value), as componentDidUpdate and
\* onEditorChangeText call it, for any value at all.
CompareValue(value) ==
  /\ phase = "constructed"
  /\ last' = [last EXCEPT !.op = "isEqualValue",
                          !.hasValue = TRUE,
                          !.value = value,
                          !.valueDiffers = ~isEqualValue(value, state.value)]
  /\ UNCHANGED <<phase, pc, props, state, editor, instances,
                 lastDeltaChangeSet, regenerationSnapshot, pendingGeneration,
                 error, ilog, calls, lastFocusCallback>>

NextEq == \E value \in EqValues : CompareValue(value)

SpecEq == InitEq /\ [][NextEq]_vars

\* ------------------------------------------------------------------ claims
\* The step is a parent update (Update), not the pass FlushState runs after it.
UpdateStep == pc = "idle" /\ last'.op = "update"
\* The step is a change notification / a selection notification.
TextStep == pc = "idle" /\ last'.op = "text"
SelectionStep == pc = "idle" /\ last'.op = "selection"
\* The last operation was an update that ran to its end without throwing.
UpdateDone == last.op = "update" /\ pc = "idle" /\ phase = "mounted"
\* The instances the component is subscribed to or holds.
Live == {i \in 1..Len(instances) : instances[i].hooked \/ i = editor}
\* The places of the calls of one kind in a log.
Places(log, opName) == {i \in 1..Len(log) : log[i].op = opName}
Named(log, name) == {i \in 1..Len(log) : log[i].name = name}

\* C1: an update of a mounted component that changes a regeneration-triggering
\* key destroys the live instance exactly once, then creates a new one exactly
\* once, and leaves the generation exactly 1 higher.
C1_RegenerationDestroysThenCreates ==
  (UpdateDone /\ last.dirty /\ last.hadEditor) =>
    /\ Cardinality(Places(ilog, "unhook")) = 1
    /\ Cardinality(Places(ilog, "create")) = 1
    /\ \A i \in Places(ilog, "unhook") : \A j \in Places(ilog, "create") : i < j
    /\ state.generation = last.prevGeneration + 1

\* C2: in externally-controlled mode, an update that changes nothing but the
\* value, to one that differs from the tracked value, makes exactly one
\* content-replace call on the live instance and the tracked value becomes the
\* new value.
C2_ValueOnlyUpdatePushesOnce ==
  (/\ UpdateDone
   /\ last.hadEditor
   /\ last.hasValue /\ last.valueDiffers
   /\ ~last.dirty /\ ~last.clean /\ ~last.other) =>
    /\ Pushes(ilog) = 1
    /\ \A i \in Places(ilog, "setEditorContents") : ilog[i].inst = editor
    /\ isEqualValue(state.value, last.value)

\* C3: after a regeneration the new live instance holds the document captured
\* before the destroy, and the captured selection when there was one; when
\* there was none, setSelection is not called.
C3_RegenerationRoundTrip ==
  (UpdateDone /\ last.dirty /\ last.hadEditor) =>
    /\ editor # NoEditor
    /\ \A i \in Places(ilog, "getContents") :
         instances[editor].contents = ilog[i].arg
    /\ \A i \in Places(ilog, "getSelection") :
         IF ilog[i].arg # NoRange
           THEN instances[editor].selection = ilog[i].arg
           ELSE Places(ilog, "setSelection") = {}

\* C4: an update in which only in-place-updatable keys differ keeps the
\* instance handle: no destroy, no create, the generation unchanged.  (No key
\* of the clean list makes shouldComponentRegenerate answer true.)
C4_CleanUpdateKeepsInstance ==
  [][(/\ UpdateStep
      /\ someDiffer(cleanProps, props', props)
      /\ ~someDiffer(AllKeys \ cleanProps, props', props)
      /\ props'.hasValue = props.hasValue
      /\ props'.value = props.value) =>
       /\ editor' = editor
       /\ Len(instances') = Len(instances)
       /\ \A i \in 1..Len(instances) : instances'[i].hooked = instances[i].hooked
       /\ Places(ilog', "create") \cup Places(ilog', "unhook") = {}
       /\ state'.generation = state.generation
       /\ pc' = "idle"
       /\ \A k \in cleanProps :
            ~shouldComponentRegenerate(
               [props EXCEPT !.cfg = BaseConfig], [props EXCEPT !.cfg = With(k)])
    ]_vars

C4_Witness ==
  /\ UpdateDone
  /\ last.clean /\ ~last.dirty /\ ~last.other /\ ~last.valueChanged
  /\ last.hadEditor /\ editor # NoEditor

\* C5: an update whose value is the very object last recorded as the raw
\* change payload raises the usage error before any call on the instance, and
\* leaves the tracked value, selection, generation and handle as they were.
C5_EchoedPayloadRaisesFirst ==
  [][(/\ UpdateStep
      /\ last'.hasValue
      /\ last'.value.ref # 0
      /\ last'.value = lastDeltaChangeSet) =>
       /\ error' = UsageError
       /\ ilog' = <<>>
       /\ state' = state
       /\ editor' = editor
       /\ instances' = instances
       /\ pc' = "idle"
    ]_vars

C5_Witness ==
  /\ last.op = "update" /\ last.echo
  /\ error = UsageError
  /\ editor # NoEditor

\* C6: two consecutive updates that supply deeply equal values in
\* externally-controlled mode, the first of which met a different tracked
\* value, make exactly one content-replace call between them.
C6_EqualValueTwicePushesOnce ==
  [][(/\ UpdateStep
      /\ UpdateDone
      /\ last.hadEditor
      /\ last.hasValue /\ last'.hasValue
      /\ ~last.other /\ ~last'.other
      /\ last.valueDiffers
      /\ isEqual(last.value, last'.value)
      /\ pc' = "idle" /\ error' = "") =>
       Pushes(ilog) + Pushes(ilog') = 1
    ]_vars

\* C7: a change notification compares the content pulled from the instance
\* with the tracked value.  If they differ the payload becomes the token, the
\* tracked value becomes the pulled content and onChange is invoked once; if
\* they are equal nothing is written and nothing is invoked.  No instance is
\* destroyed or created.
C7_ChangeNotification ==
  [][TextStep =>
       LET d == last'.arg
           pulled == IF state.value.kind = "delta"
                       THEN Delta(0, d, TRUE) ELSE Html(d, TRUE)
           differs == \/ pulled.doc # state.value.doc
                      \/ pulled.canon # state.value.canon
       IN  /\ differs =>
                /\ lastDeltaChangeSet' = Delta(1, d, FALSE)
                /\ state' = [state EXCEPT !.value = pulled]
                /\ calls' = <<Call("onChange", d)>>
           /\ ~differs =>
                /\ state' = state
                /\ lastDeltaChangeSet' = lastDeltaChangeSet
                /\ calls' = <<>>
           /\ editor' = editor
           /\ Len(instances') = Len(instances)
           /\ \A i \in 1..Len(instances) :
                instances'[i].hooked = instances[i].hooked
    ]_vars

C7_Witness ==
  /\ last.op = "text"
  /\ calls = <<Call("onChange", last.arg)>>
  /\ lastDeltaChangeSet = Delta(1, last.arg, FALSE)
  /\ state.value.doc = last.arg

\* C8: a selection notification that is not suppressed invokes onFocus (with
\* the new range) exactly when the tracked selection was absent and the new
\* one is present, and onBlur (with the previous range, never null) exactly
\* when the tracked one was present and the new one is absent; never both.
C8_FocusAndBlur ==
  [][(SelectionStep /\ last'.arg # state.selection) =>
       LET r == last'.arg
           gained == state.selection = NoRange /\ r # NoRange
           lost == state.selection # NoRange /\ r = NoRange
       IN  /\ Cardinality(Named(calls', "onFocus")) = IF gained THEN 1 ELSE 0
           /\ Cardinality(Named(calls', "onBlur")) = IF lost THEN 1 ELSE 0
           /\ \A i \in Named(calls', "onFocus") : calls'[i].arg = r
           /\ \A i \in Named(calls', "onBlur") :
                calls'[i].arg = state.selection /\ calls'[i].arg # NoRange
           /\ Named(calls', "onFocus") = {} \/ Named(calls', "onBlur") = {}
    ]_vars

C8_Witness ==
  /\ last.op = "selection"
  /\ state.selection = NoRange
  /\ \E i \in Named(calls, "onBlur") : calls[i].arg # NoRange

\* C9: a selection notification deeply equal to the tracked selection is
\* suppressed: nothing is written, nothing invoked.  Any other one sets the
\* tracked selection to the new range and invokes onChangeSelection exactly
\* once, before any onFocus or onBlur.
C9_SelectionNotification ==
  [][SelectionStep =>
       LET r == last'.arg
       IN  IF r = state.selection
             THEN state' = state /\ calls' = <<>>
             ELSE /\ state' = [state EXCEPT !.selection = r]
                  /\ Cardinality(Named(calls', "onChangeSelection")) = 1
                  /\ calls'[1] = Call("onChangeSelection", r)
    ]_vars

C9_Witness ==
  /\ last.op = "selection"
  /\ last.arg = state.selection
  /\ last.arg # NoRange
  /\ calls = <<>>

\* C10: the component never has more than one live widget instance.
C10_AtMostOneLiveInstance ==
  Cardinality(Live) <= 1

C10_Witness ==
  /\ UpdateDone /\ last.dirty /\ last.hadEditor
  /\ Len(instances) >= 1
  /\ Live = {}

\* C11: in a regeneration no externally supplied value is pushed into any
\* instance after the destroy of the old one (and before the restore), even
\* when the update that changes the dirty prop also supplies a new value.
C11_NoPushDuringRegeneration ==
  (last.op = "update") =>
    \A i \in Places(ilog, "unhook") :
      \A j \in Places(ilog, "setEditorContents") :
        j > i => \E k \in Places(ilog, "setContents") : i < k /\ k < j

\* C12: once unmount has run the component holds no instance and every
\* instance it created is unsubscribed.
C12_UnmountLeavesNoInstance ==
  (phase = "unmounted") =>
    /\ editor = NoEditor
    /\ \A i \in 1..Len(instances) : ~instances[i].hooked

C12_Witness ==
  /\ phase = "unmounted"
  /\ last.hadEditor
  /\ Places(ilog, "unhook") # {}
  /\ state.selection # NoRange
  /\ lastDeltaChangeSet # Undefined

\* C13: outside a regeneration in progress the regeneration snapshot is
\* absent: it is cleared by the update pass that follows the generation change.
C13_SnapshotCleared ==
  (pc = "idle") => ~regenerationSnapshot.present

\* C14: the component is subscribed to exactly the instance it holds, so a
\* notification is only ever handled for an instance between its create and
\* its destroy.
C14_NoNotificationAfterDestroy ==
  /\ \A i \in 1..Len(instances) : instances[i].hooked <=> i = editor
  /\ last.op \in {"text", "selection"} => last.hadEditor /\ editor # NoEditor

C14_Witness ==
  /\ last.op = "update" /\ last.dirty /\ last.hadEditor
  /\ pc = "idle"
  /\ Len(instances) = 1
  /\ ~instances[1].hooked
  /\ Places(ilog, "setEditorContents") # {}

\* C15: an update that supplies no value never pushes a value into the
\* instance, whatever else changes (defaultValue included).
C15_SelfManagedNeverPushed ==
  (last.op = "update" /\ ~last.hasValue) => Pushes(ilog) = 0

C15_Witness ==
  /\ UpdateDone
  /\ ~last.hasValue /\ last.hadEditor /\ editor # NoEditor
  /\ last.other /\ last.clean
  /\ props.cfg["defaultValue"] = 1
  /\ ~isEqualValue(EmptyString, state.value)
  /\ ~isEqualValue(defaultValueOf(props.cfg), state.value)

\* C16: after a real change the tracked value is of the kind of the value the
\* parent currently supplies.
C16_TrackedKindFollowsSupplied ==
  (last.op = "text" /\ calls # <<>> /\ props.hasValue) =>
    state.value.kind = props.value.kind

\* C19: the lifecycle handlers never raise "Editor is already instantiated"
\* or "Destroying editor before instantiation".
C19_LifecycleNeverViolatesContract ==
  /\ error # "Editor is already instantiated"
  /\ error # "Destroying editor before instantiation"

\* C20: onFocus and onBlur alternate, beginning with onFocus, and the tracked
\* selection is present exactly when the last of the two invoked was onFocus.
C20_FocusBlurAlternate ==
  [][/\ (SelectionStep /\ Invoked(calls', "onFocus"))
          => lastFocusCallback # "onFocus"
     /\ (SelectionStep /\ Invoked(calls', "onBlur"))
          => lastFocusCallback = "onFocus"
     /\ (~SelectionStep) => lastFocusCallback' = lastFocusCallback
     /\ (state.selection # NoRange) <=> (lastFocusCallback = "onFocus")
     /\ (state'.selection # NoRange) <=> (lastFocusCallback' = "onFocus")]_vars

C20_Witness ==
  /\ lastFocusCallback = "onBlur"
  /\ Invoked(calls, "onBlur")
  /\ state.selection = NoRange
  /\ lastDeltaChangeSet # Undefined

\* C17: isEqualValue is true exactly when both values are Deltas with deeply
\* equal ops, or neither is a Delta and the two are deeply equal; a Delta and
\* an HTML string are never equal; the relation is symmetric.
C17_ValueEquality ==
  (last.op = "isEqualValue") =>
    LET a == last.value
        b == state.value
        equal == ~last.valueDiffers
    IN  /\ equal <=>
              \/ a.kind = "delta" /\ b.kind = "delta"
                   /\ a.doc = b.doc /\ a.canon = b.canon
              \/ a.kind = "html" /\ b.kind = "html" /\ a = b
        /\ a.kind # b.kind => ~equal
        /\ isEqualValue(b, a) = equal

C17_Witness ==
  /\ last.op = "isEqualValue"
  /\ last.value.kind = "delta" /\ state.value.kind = "html"
  /\ last.value.doc = state.value.doc /\ last.value.canon = state.value.canon
  /\ last.valueDiffers

\* The step is a call of the public method called name.
MethodStep(name) == phase = "mounted" /\ pc = "idle" /\ last'.op = name
\* The step changes neither the handle nor anything the component tracks,
\* calls nothing on an instance and invokes no callback.
Untouched ==
  /\ UNCHANGED <<phase, pc, props, state, editor, instances,
                 lastDeltaChangeSet, regenerationSnapshot, pendingGeneration,
                 lastFocusCallback>>
  /\ ilog' = <<>>
  /\ calls' = <<>>

\* C18: instantiateEditor with a handle, destroyEditor without one and
\* getEditor without one each raise their error and change nothing; focus()
\* and blur() without a handle raise nothing and change nothing.
C18_HandleAbsenceOutcomes ==
  [][/\ (MethodStep("instantiateEditor") /\ editor # NoEditor)
          => error' = "Editor is already instantiated" /\ Untouched
     /\ (MethodStep("destroyEditor") /\ editor = NoEditor)
          => error' = "Destroying editor before instantiation" /\ Untouched
     /\ (MethodStep("getEditor") /\ editor = NoEditor)
          => error' = "Accessing non-instantiated editor" /\ Untouched
     /\ ((MethodStep("focus") \/ MethodStep("blur")) /\ editor = NoEditor)
          => error' = "" /\ Untouched]_vars

C18_Witness ==
  /\ last.op = "instantiateEditor"
  /\ last.hadEditor
  /\ error = "Editor is already instantiated"
  /\ editor # NoEditor
  /\ state.value # EmptyString
  /\ state.selection # NoRange

====
